---------------------------- MODULE Spec2Model ----------------------------
(***************************************************************************)
(* Event dispatch and focus resolution of kayak_ui                         *)
(* (kayak_core/src/event_dispatcher.rs, event.rs, cursor.rs).              *)
(*                                                                         *)
(* One dispatch cycle (EventDispatcher::process_events) is one atomic      *)
(* action, ProcessEvents: the program is single threaded and the call runs *)
(* to completion.  The event stream and the trace of the calls the         *)
(* dispatcher makes on its collaborators (Widget::on_event, the focus      *)
(* tree) are locals of the call; they are visible while pc = "done" and    *)
(* dropped when the call returns (action Return).                          *)
(***************************************************************************)
EXTENDS Integers, Sequences, FiniteSets, TLC

(***************************************************************************)
(* Bounds                                                                  *)
(***************************************************************************)
\* Longest list of raw input events handed to one process_events call.
MaxInputs == 2
\* Most candidates offered to update_state for one event kind in one walk.
MaxOffers == 3

(***************************************************************************)
(* Option<T>: None is the empty sequence, Some(x) the one-element sequence *)
(***************************************************************************)
None == <<>>
Some(x) == <<x>>
is_none(o) == o = <<>>
is_some(o) == o # <<>>
unwrap(o) == o[1]
unwrap_or_default(o) == IF o = <<>> THEN FALSE ELSE o[1]

(***************************************************************************)
(* The widget tree, layouts and styles the dispatcher consumes.            *)
(*                                                                         *)
(*        1            node  rect    z  focusable  render_command          *)
(*       / \            1    {0,1}   0  no         Layout                  *)
(*      2   3           2    {0,1}   0  yes        Quad                    *)
(*      |               3    {1}     1  yes        Text                    *)
(*      4               4    {0,1}   0  yes        Quad                    *)
(*                                                                         *)
(* Points are 0..2; point 0 is the default mouse position, point 1 is      *)
(* where the siblings 2 and 3 overlap, point 2 is outside every rectangle. *)
(***************************************************************************)
Nodes == {1, 2, 3, 4}
\* Index::default(), the initial value of last_clicked; no widget has it.
DefaultIndex == 0
Points == {0, 1, 2}
root_node == Some(1)
children == [n \in Nodes |-> CASE n = 1 -> <<2, 3>> [] n = 2 -> <<4>> [] OTHER -> <<>>]
get_parent(n) == CASE n = 1 -> None [] n = 2 -> Some(1) [] n = 3 -> Some(1) [] n = 4 -> Some(2)
rect == [n \in Nodes |-> CASE n = 3 -> {1} [] OTHER -> {0, 1}]
z_index == [n \in Nodes |-> IF n = 3 THEN 1 ELSE 0]
\* Rect::contains
contains(n, point) == point \in rect[n]
\* WidgetManager::get_focusable
get_focusable(n) == Some(n \in {2, 3, 4})
render_command == [n \in Nodes |-> CASE n = 1 -> "Layout" [] n = 3 -> "Text" [] OTHER -> "Quad"]

\* cursor.rs: enum PointerEvents, Default = All
PointerEvents == {"All", "SelfOnly", "ChildrenOnly", "None"}
\* What the style lookup of a node gives when current_widgets has no slot for
\* the node: current_widgets.get(node) is None
Absent == "Absent"
\* A node that was removed from the tree, with its widget
Detached == "Detached"

(***************************************************************************)
(* event.rs                                                                *)
(***************************************************************************)
KeyCodes == {"Tab", "LShift"}
NoModifiers == [is_ctrl_pressed |-> FALSE, is_shift_pressed |-> FALSE,
                is_alt_pressed |-> FALSE, is_meta_pressed |-> FALSE]
\* EventType: the simple variants, and the variants with a payload
Simple(tag) == [tag |-> tag]
CharInput(c) == [tag |-> "CharInput", c |-> c]
KeyUp(key, mods) == [tag |-> "KeyUp", key |-> key, mods |-> mods]
KeyDown(key, mods) == [tag |-> "KeyDown", key |-> key, mods |-> mods]

\* A table in which every kind of event propagates
propagates_always(event_type) == TRUE

\* EventType::propagates
propagates(event_type) ==
    CASE event_type.tag \in {"Hover", "Click", "MouseDown", "MouseUp",
                             "CharInput", "KeyUp", "KeyDown"} -> TRUE
      [] event_type.tag \in {"MouseIn", "MouseOut", "Focus", "Blur"} -> FALSE

\* EventType::event_category
event_category(event_type) ==
    CASE event_type.tag \in {"Hover", "Click", "MouseDown", "MouseUp",
                             "MouseIn", "MouseOut"} -> "Mouse"
      [] event_type.tag \in {"CharInput", "KeyUp", "KeyDown"} -> "Keyboard"
      [] event_type.tag \in {"Focus", "Blur"} -> "Focus"

\* Event::new
Event_new(target, event_type) ==
    [target |-> target, current_target |-> target, event_type |-> event_type,
     should_propagate |-> propagates(event_type), default_prevented |-> FALSE]

(***************************************************************************)
(* Raw input events (InputEvent) and their category                        *)
(***************************************************************************)
MouseMoved(point) == [input |-> "MouseMoved", point |-> point]
MouseLeftPress == [input |-> "MouseLeftPress"]
MouseLeftRelease == [input |-> "MouseLeftRelease"]
CharEvent(c) == [input |-> "CharEvent", c |-> c]
Keyboard(key, is_pressed) == [input |-> "Keyboard", key |-> key, is_pressed |-> is_pressed]

\* The raw inputs a pointer delivers, and those a keyboard and a button deliver
PointerInputs == {MouseMoved(1), MouseMoved(2), MouseLeftPress, MouseLeftRelease}
KeyInputs == {MouseLeftPress, Keyboard("Tab", TRUE),
              Keyboard("LShift", TRUE), Keyboard("LShift", FALSE)}
\* The button of a pointer that rests over the widgets
ButtonInputs == {MouseLeftPress, MouseLeftRelease}
\* A pointer that moves over the overlapping widgets, and the Tab key
MixedInputs == {MouseMoved(1), MouseLeftPress, MouseLeftRelease, Keyboard("Tab", TRUE)}

\* What a keyboard and a pointer deliver while text is typed
TypeInputs == {MouseMoved(1), MouseLeftPress, MouseLeftRelease, CharEvent("a"),
               Keyboard("LShift", TRUE), Keyboard("LShift", FALSE)}

\* The modifier a key stands for (the match on the key code, lines 416-431)
modifier_of(key) ==
    CASE key \in {"LControl", "RControl"} -> "is_ctrl_pressed"
      [] key \in {"LShift", "RShift"} -> "is_shift_pressed"
      [] key \in {"LAlt", "RAlt"} -> "is_alt_pressed"
      [] key \in {"LWin", "RWin"} -> "is_meta_pressed"
      [] OTHER -> "none"

\* The modifier keys held down after these raw inputs, given those held before:
\* a modifier is held iff the latest input for its key was a press
RECURSIVE held_after(_, _)
held_after(held, input_list) ==
    IF input_list = <<>> THEN held
    ELSE LET i == Head(input_list)
             is_modifier == i.input = "Keyboard" /\ modifier_of(i.key) # "none"
         IN held_after(IF is_modifier
                       THEN [held EXCEPT ![modifier_of(i.key)] = i.is_pressed]
                       ELSE held,
                       Tail(input_list))

\* InputEvent::category
category(input_event) ==
    IF input_event.input \in {"MouseMoved", "MouseLeftPress", "MouseLeftRelease"}
    THEN "Mouse" ELSE "Keyboard"

\* The lists of raw input events of one tick, drawn from `inputs`
InputLists(inputs) == UNION {[1..k -> inputs] : k \in 0..MaxInputs}

(***************************************************************************)
(* The focus tree (focus_tree), seen as a ring of the focusable nodes in   *)
(* registration order.                                                     *)
(***************************************************************************)
focus_order == <<2, 4, 3>>
IndexOf(n) == CHOOSE i \in 1..Len(focus_order) : focus_order[i] = n
\* FocusTree::next
focus_next(current) ==
    IF Len(focus_order) = 0 THEN None
    ELSE IF is_none(current) THEN Some(focus_order[1])
    ELSE Some(focus_order[(IndexOf(unwrap(current)) % Len(focus_order)) + 1])
\* FocusTree::prev
focus_prev(current) ==
    IF Len(focus_order) = 0 THEN None
    ELSE IF is_none(current) THEN Some(focus_order[Len(focus_order)])
    ELSE Some(focus_order[((IndexOf(unwrap(current)) + Len(focus_order) - 2) % Len(focus_order)) + 1])
\* FocusTree::focus: focusing a node that is not registered changes nothing
focus_focus(current, n) ==
    IF \E i \in 1..Len(focus_order) : focus_order[i] = n THEN Some(n) ELSE current
\* FocusTree::blur
focus_blur(current) == None

(***************************************************************************)
(* State                                                                   *)
(***************************************************************************)
VARIABLES
    \* EventDispatcher
    is_mouse_pressed, current_mouse_position, next_mouse_position,
    previous_events, keyboard_modifiers, last_clicked,
    contains_cursor, wants_cursor, has_cursor,
    \* widget_manager.focus_tree.current()
    focus,
    \* styles.pointer_events of each widget
    pointer_events,
    \* the call in progress: its argument, its event stream and the calls it made
    pc, input_events, event_stream, log,
    \* update_state on its own: the candidates offered for one event kind, and
    \* the EventState they leave
    candidates, best,
    \* the keyboard: which modifier keys are held down
    modifier_keys

vars == <<is_mouse_pressed, current_mouse_position, next_mouse_position,
          previous_events, keyboard_modifiers, last_clicked,
          contains_cursor, wants_cursor, has_cursor, focus, pointer_events,
          pc, input_events, event_stream, log, candidates, best, modifier_keys>>

\* The EventDispatcher as one value (self)
Self ==
    [is_mouse_pressed |-> is_mouse_pressed,
     current_mouse_position |-> current_mouse_position,
     next_mouse_position |-> next_mouse_position,
     previous_events |-> previous_events,
     keyboard_modifiers |-> keyboard_modifiers,
     last_clicked |-> last_clicked,
     contains_cursor |-> contains_cursor,
     wants_cursor |-> wants_cursor,
     has_cursor |-> has_cursor]

\* EventMap: HashMap<Index, HashSet<EventType>>; a node without an entry has {}
EmptyEventMap == [n \in Nodes |-> {}]

\* EventDispatcher::contains_event
contains_event(events, widget_id, event_type) == event_type \in events[widget_id]

\* EventDispatcher::insert_event
insert_event(events, widget_id, event_type) ==
    [events EXCEPT ![widget_id] = @ \cup {event_type}]

\* EventDispatcher::can_contain_cursor
can_contain_cursor(n) == render_command[n] \notin {"Empty", "Layout", "Clip"}

(***************************************************************************)
(* Best-match resolution                                                   *)
(***************************************************************************)
\* f32::NEG_INFINITY: below every z-index
NEG_INFINITY == -1000
\* The depths and z-indexes of the candidates offered to update_state
Depths == 0..2
ZIndexes == 0..2

\* EventState::default
EventState_default == [best_z_index |-> NEG_INFINITY, best_match |-> None, best_depth |-> -1]

\* states.entry(event_type).or_insert(EventState::default())
entry_or_default(states, key) ==
    IF key \in DOMAIN states THEN states[key] ELSE EventState_default

\* An update rule that looks at the z-index only when the depth is not lower
update_rule_by_depth(state, node, depth, z) ==
    IF depth >= state.best_depth /\ z >= state.best_z_index
    THEN [best_match |-> Some(node), best_z_index |-> z, best_depth |-> depth]
    ELSE state

\* update_state, the rule applied to the state of the event kind (lines 462-472):
\* z is layout.z_index
update_rule(state, node, depth, z) ==
    LET should_update ==
            \/ depth >= state.best_depth /\ z >= state.best_z_index
            \/ z > state.best_z_index
    IN IF should_update
       THEN [best_match |-> Some(node), best_z_index |-> z, best_depth |-> depth]
       ELSE state

\* EventDispatcher::update_state
update_state(states, node, depth, event_type) ==
    LET updated == update_rule(entry_or_default(states, event_type.tag),
                               node, depth, z_index[node])
    IN [k \in DOMAIN states \cup {event_type.tag} |-> IF k = event_type.tag THEN updated ELSE states[k]]


(***************************************************************************)
(* Phase 1: the event stream                                               *)
(***************************************************************************)
\* A movement that takes the cursor from its owner when the pointer is moved
\* out of the owner's rectangle
pointer_moved_drops_owner(self, point, node, depth, states) ==
    LET was_contained == contains(node, self.current_mouse_position)
        is_contained == contains(node, point)
        emitted ==
            IF was_contained # is_contained
            THEN IF was_contained
                 THEN <<Event_new(node, Simple("MouseOut"))>>
                 ELSE <<Event_new(node, Simple("MouseIn"))>>
            ELSE <<>>
        new_contains ==
            IF (is_none(self.contains_cursor) \/ ~unwrap_or_default(self.contains_cursor))
               /\ can_contain_cursor(node)
            THEN Some(is_contained) ELSE self.contains_cursor
        new_wants ==
            IF (is_none(self.wants_cursor) \/ ~unwrap_or_default(self.wants_cursor))
               /\ get_focusable(node) = Some(TRUE)
            THEN Some(is_contained) ELSE self.wants_cursor
    IN [self |-> [self EXCEPT !.contains_cursor = new_contains,
                              !.wants_cursor = new_wants,
                              !.has_cursor =
                                  IF @ = Some(node) /\ ~is_contained THEN None ELSE @,
                              !.next_mouse_position = point],
        states |-> IF is_contained
                   THEN update_state(states, node, depth, Simple("Hover"))
                   ELSE states,
        events |-> emitted]

\* A move whose point is the last-known position at once
store_point_at_once(self, point) ==
    [self EXCEPT !.current_mouse_position = point, !.next_mouse_position = point]

\* process_pointer_events, "Reset global mouse position" (line 352): the point is
\* stored as the pending position
store_point(self, point) == [self EXCEPT !.next_mouse_position = point]

\* process_pointer_events, InputEvent::MouseMoved(point) (lines 317-353).
\* Each branch returns the dispatcher, the best-match states and the events emitted.
pointer_moved(self, point, node, depth, states) ==
    LET was_contained == contains(node, self.current_mouse_position)
        is_contained == contains(node, point)
        emitted ==
            IF was_contained # is_contained
            THEN IF was_contained
                 THEN <<Event_new(node, Simple("MouseOut"))>>
                 ELSE <<Event_new(node, Simple("MouseIn"))>>
            ELSE <<>>
        new_contains ==
            IF (is_none(self.contains_cursor) \/ ~unwrap_or_default(self.contains_cursor))
               /\ can_contain_cursor(node)
            THEN Some(is_contained) ELSE self.contains_cursor
        new_wants ==
            IF (is_none(self.wants_cursor) \/ ~unwrap_or_default(self.wants_cursor))
               /\ get_focusable(node) = Some(TRUE)
            THEN Some(is_contained) ELSE self.wants_cursor
    IN [self |-> [store_point(self, point) EXCEPT !.contains_cursor = new_contains,
                                                  !.wants_cursor = new_wants],
        states |-> IF is_contained
                   THEN update_state(states, node, depth, Simple("Hover"))
                   ELSE states,
        events |-> emitted]

\* process_pointer_events, InputEvent::MouseLeftPress (lines 354-379)
pointer_press(self, node, depth, states) ==
    LET inside == contains(node, self.current_mouse_position)
        focusable == get_focusable(node)
    IN [self |-> [self EXCEPT !.is_mouse_pressed = TRUE,
                              !.has_cursor =
                                  IF inside /\ is_none(self.has_cursor)
                                     /\ can_contain_cursor(node)
                                  THEN Some(node) ELSE @],
        states |-> IF inside /\ is_some(focusable) /\ unwrap(focusable)
                   THEN update_state(states, node, depth, Simple("Focus"))
                   ELSE states,
        events |-> IF inside THEN <<Event_new(node, Simple("MouseDown"))>> ELSE <<>>]

\* A release that emits Click at every pressed node under the pointer, where
\* pointer_release enters the node as a contender for the best match
pointer_release_unresolved(self, node, depth, states) ==
    LET inside == contains(node, self.current_mouse_position)
    IN [self |-> [self EXCEPT !.is_mouse_pressed = FALSE,
                              !.has_cursor = None,
                              !.last_clicked = IF inside THEN node ELSE @],
        states |-> states,
        events |-> IF inside
                   THEN <<Event_new(node, Simple("MouseUp"))>>
                        \o (IF contains_event(self.previous_events, node, Simple("MouseDown"))
                            THEN <<Event_new(node, Simple("Click"))>> ELSE <<>>)
                   ELSE <<>>]

\* A release that makes every node under the pointer a contender for Click,
\* pressed before or not
pointer_release_unpressed(self, node, depth, states) ==
    LET inside == contains(node, self.current_mouse_position)
    IN [self |-> [self EXCEPT !.is_mouse_pressed = FALSE,
                              !.has_cursor = None,
                              !.last_clicked = IF inside THEN node ELSE @],
        states |-> IF inside
                   THEN update_state(states, node, depth, Simple("Click"))
                   ELSE states,
        events |-> IF inside THEN <<Event_new(node, Simple("MouseUp"))>> ELSE <<>>]

\* A release that clears the pressed flag and leaves the owner of the cursor
pointer_release_keeps_owner(self, node, depth, states) ==
    LET inside == contains(node, self.current_mouse_position)
    IN [self |-> [self EXCEPT !.is_mouse_pressed = FALSE,
                              !.last_clicked = IF inside THEN node ELSE @],
        states |-> IF inside /\ contains_event(self.previous_events, node, Simple("MouseDown"))
                   THEN update_state(states, node, depth, Simple("Click"))
                   ELSE states,
        events |-> IF inside THEN <<Event_new(node, Simple("MouseUp"))>> ELSE <<>>]

\* process_pointer_events, InputEvent::MouseLeftRelease (lines 380-396)
pointer_release(self, node, depth, states) ==
    LET inside == contains(node, self.current_mouse_position)
    IN [self |-> [self EXCEPT !.is_mouse_pressed = FALSE,
                              !.has_cursor = None,
                              !.last_clicked = IF inside THEN node ELSE @],
        states |-> IF inside /\ contains_event(self.previous_events, node, Simple("MouseDown"))
                   THEN update_state(states, node, depth, Simple("Click"))
                   ELSE states,
        events |-> IF inside THEN <<Event_new(node, Simple("MouseUp"))>> ELSE <<>>]

\* EventDispatcher::process_pointer_events, for one (node, raw input) pair
process_pointer_events(self, input_event, node, depth, states) ==
    CASE input_event.input = "MouseMoved" ->
            pointer_moved(self, input_event.point, node, depth, states)
      [] input_event.input = "MouseLeftPress" -> pointer_press(self, node, depth, states)
      [] input_event.input = "MouseLeftRelease" -> pointer_release(self, node, depth, states)
      [] OTHER -> [self |-> self, states |-> states, events |-> <<>>]

\* build_event_stream, the match on the node's PointerEvents (lines 222-238):
\* All and SelfOnly process the node,
processes_node(policy) == policy \in {"All", "SelfOnly"}
\* A walk that enters the children of a node whose policy is None
blocks_children_none_open(policy) == policy = "SelfOnly"
\* SelfOnly and None do not enter its children.
blocks_children(policy) == policy \in {"SelfOnly", "None"}

\* The fields has_cursor and is_mouse_pressed of the dispatcher (lines 39-47),
\* read together: an owner of the cursor goes with a held button
owner_implies_pressed(self) == is_some(self.has_cursor) => self.is_mouse_pressed

\* build_event_stream, the loop over the raw inputs for one popped node
\* (lines 211-240).  acc: self, states, event_stream, enter_children,
\* panicked: the unwrap of line 216 met a node that current_widgets does not hold,
\* and cursor_held: owner_implies_pressed after every step of the walk so far.
RECURSIVE visit_inputs(_, _, _, _, _, _)
visit_inputs(acc, input_list, i, current, depth, policy) ==
    IF i > Len(input_list) THEN acc
    ELSE IF category(input_list[i]) # "Mouse"
    THEN visit_inputs(acc, input_list, i + 1, current, depth, policy)
    ELSE IF policy[current] = Absent
    THEN [acc EXCEPT !.panicked = TRUE]
    ELSE LET r == IF processes_node(policy[current])
                  THEN process_pointer_events(acc.self, input_list[i], current, depth, acc.states)
                  ELSE [self |-> acc.self, states |-> acc.states, events |-> <<>>]
         IN visit_inputs(
                [self |-> r.self, states |-> r.states,
                 event_stream |-> acc.event_stream \o r.events,
                 panicked |-> acc.panicked,
                 cursor_held |-> acc.cursor_held /\ owner_implies_pressed(r.self),
                 enter_children |-> acc.enter_children /\ ~blocks_children(policy[current])],
                input_list, i + 1, current, depth, policy)

\* A tree that lists every child twice
tree_children_twice(policy, current) ==
    LET in_tree(child) == policy[child] # Detached
    IN SelectSeq(children[current], in_tree) \o SelectSeq(children[current], in_tree)

\* node_tree.children.get(&current): the children still in the tree
tree_children(policy, current) ==
    LET in_tree(child) == policy[child] # Detached
    IN SelectSeq(children[current], in_tree)

\* build_event_stream, the walk over the tree with an explicit stack
\* (lines 206-250): pop the last entry, visit it, push its children.
RECURSIVE walk_tree(_, _, _, _)
walk_tree(stack, acc, input_list, policy) ==
    IF Len(stack) = 0 \/ acc.panicked THEN acc
    ELSE LET top == stack[Len(stack)]
             current == top[1]
             depth == top[2]
             rest == SubSeq(stack, 1, Len(stack) - 1)
             r == visit_inputs([acc EXCEPT !.enter_children = TRUE],
                               input_list, 1, current, depth, policy)
             below == tree_children(policy, current)
             pushed == IF r.enter_children
                       THEN rest \o [k \in 1..Len(below) |-> <<below[k], depth + 1>>]
                       ELSE rest
         IN walk_tree(pushed, r, input_list, policy)

\* Keyboard processing that makes no event of a key release
process_keyboard_events_down_only(self, input_event, current_focus) ==
    IF is_none(current_focus) THEN [self |-> self, events |-> <<>>]
    ELSE CASE input_event.input = "CharEvent" ->
                [self |-> self,
                 events |-> <<Event_new(unwrap(current_focus), CharInput(input_event.c))>>]
           [] input_event.input = "Keyboard" ->
                LET key == input_event.key
                    m == self.keyboard_modifiers
                    mods ==
                        CASE key \in {"LControl", "RControl"} ->
                                [m EXCEPT !.is_ctrl_pressed = input_event.is_pressed]
                          [] key \in {"LShift", "RShift"} ->
                                [m EXCEPT !.is_shift_pressed = input_event.is_pressed]
                          [] key \in {"LAlt", "RAlt"} ->
                                [m EXCEPT !.is_alt_pressed = input_event.is_pressed]
                          [] key \in {"LWin", "RWin"} ->
                                [m EXCEPT !.is_meta_pressed = input_event.is_pressed]
                          [] OTHER -> m
                IN [self |-> [self EXCEPT !.keyboard_modifiers = mods],
                    events |-> IF input_event.is_pressed
                               THEN <<Event_new(unwrap(current_focus), KeyDown(key, mods))>>
                               ELSE <<>>]
           [] OTHER -> [self |-> self, events |-> <<>>]

\* EventDispatcher::process_keyboard_events, for one raw input
process_keyboard_events(self, input_event, current_focus) ==
    IF is_none(current_focus) THEN [self |-> self, events |-> <<>>]
    ELSE CASE input_event.input = "CharEvent" ->
                [self |-> self,
                 events |-> <<Event_new(unwrap(current_focus), CharInput(input_event.c))>>]
           [] input_event.input = "Keyboard" ->
                LET key == input_event.key
                    m == self.keyboard_modifiers
                    mods ==
                        CASE key \in {"LControl", "RControl"} ->
                                [m EXCEPT !.is_ctrl_pressed = input_event.is_pressed]
                          [] key \in {"LShift", "RShift"} ->
                                [m EXCEPT !.is_shift_pressed = input_event.is_pressed]
                          [] key \in {"LAlt", "RAlt"} ->
                                [m EXCEPT !.is_alt_pressed = input_event.is_pressed]
                          [] key \in {"LWin", "RWin"} ->
                                [m EXCEPT !.is_meta_pressed = input_event.is_pressed]
                          [] OTHER -> m
                IN [self |-> [self EXCEPT !.keyboard_modifiers = mods],
                    events |-> IF input_event.is_pressed
                               THEN <<Event_new(unwrap(current_focus), KeyDown(key, mods))>>
                               ELSE <<Event_new(unwrap(current_focus), KeyUp(key, mods))>>]
           [] OTHER -> [self |-> self, events |-> <<>>]

\* build_event_stream, the loop over the raw inputs for the keyboard (lines 253-257)
RECURSIVE keyboard_loop(_, _, _, _)
keyboard_loop(acc, input_list, i, current_focus) ==
    IF i > Len(input_list) THEN acc
    ELSE LET r == process_keyboard_events(acc.self, input_list[i], current_focus)
         IN keyboard_loop([acc EXCEPT !.self = r.self,
                                      !.event_stream = @ \o r.events],
                          input_list, i + 1, current_focus)

\* The orders in which a HashMap with these keys may be iterated
Orderings(keys) ==
    {o \in [1..Cardinality(keys) -> keys] : \A i, j \in DOMAIN o : i # j => o[i] # o[j]}

\* A call on the focus tree, as an entry of the call trace
FocusCall(call, node, before, ev, lvl) ==
    [call |-> call, node |-> node, target |-> before, current_target |-> node,
     event_type |-> Simple("Focus"), ev |-> ev, lvl |-> lvl, stop |-> FALSE, prevent |-> FALSE, seen_prevented |-> FALSE,
     overwrote |-> FALSE]

\* A Focus arm that blurs the focused node whichever node takes the focus
focus_events_blur_any(pushed, current_focus, node) ==
    IF is_some(current_focus)
    THEN Append(pushed, Event_new(unwrap(current_focus), Simple("Blur")))
    ELSE pushed

\* build_event_stream, the Focus arm (lines 269-275): the stream after the Focus
\* event for `node` was pushed, with the Blur for another focused node
focus_events(pushed, current_focus, node) ==
    IF is_some(current_focus) /\ unwrap(current_focus) # node
    THEN Append(pushed, Event_new(unwrap(current_focus), Simple("Blur")))
    ELSE pushed

\* A blur rule that does not ask for a press
blur_on_miss_without_press(had_focus_event, input_list, current_focus) ==
    ~had_focus_event /\ is_some(current_focus)

\* build_event_stream, the condition of the blur on a miss (lines 283-285)
blur_on_miss(had_focus_event, input_list, current_focus) ==
    /\ ~had_focus_event
    /\ \E i \in 1..Len(input_list) : input_list[i] = MouseLeftPress
    /\ is_some(current_focus)

\* build_event_stream, the loop over the best-match states (lines 263-280),
\* in iteration order `order`.  acc: event_stream, focus, had_focus_event, log.
RECURSIVE additional_events(_, _, _, _)
additional_events(acc, states, order, i) ==
    IF i > Len(order) THEN acc
    ELSE LET state == states[order[i]]
         IN IF is_none(state.best_match) THEN additional_events(acc, states, order, i + 1)
            ELSE LET node == unwrap(state.best_match)
                     pushed == Append(acc.event_stream, Event_new(node, Simple(order[i])))
                 IN IF order[i] = "Focus"
                    THEN additional_events(
                             [event_stream |-> focus_events(pushed, acc.focus, node),
                              focus |-> focus_focus(acc.focus, node),
                              had_focus_event |-> TRUE,
                              log |-> Append(acc.log, FocusCall("focus", node, acc.focus, 0, 0))],
                             states, order, i + 1)
                    ELSE additional_events([acc EXCEPT !.event_stream = pushed],
                                           states, order, i + 1)

\* build_event_stream up to the keyboard events (lines 190-257)
collect_events(self, input_list, current_focus, policy) ==
    LET cleared == [self EXCEPT !.contains_cursor = None, !.wants_cursor = None]
        walked == walk_tree(<<<<unwrap(root_node), 0>>>>,
                            [self |-> cleared, states |-> <<>>, event_stream |-> <<>>,
                             enter_children |-> TRUE, panicked |-> FALSE,
                             cursor_held |-> owner_implies_pressed(cleared)],
                            input_list, policy)
    IN keyboard_loop(walked, input_list, 1, current_focus)

\* build_event_stream from the best-match states on (lines 259-303): c is the
\* result of collect_events, the HashMap is iterated in `order`.
resolve_events(self, c, input_list, current_focus, order) ==
    LET a == additional_events([event_stream |-> c.event_stream, focus |-> current_focus,
                                had_focus_event |-> FALSE, log |-> <<>>],
                               c.states, order, 1)
        blur == blur_on_miss(a.had_focus_event, input_list, a.focus)
        s == c.self
    IN [self |-> [s EXCEPT !.current_mouse_position = s.next_mouse_position,
                           !.contains_cursor =
                               IF is_none(s.contains_cursor) THEN self.contains_cursor ELSE @,
                           !.wants_cursor =
                               IF is_none(s.wants_cursor) THEN self.wants_cursor ELSE @],
        focus |-> IF blur THEN focus_blur(a.focus) ELSE a.focus,
        event_stream |-> IF blur
                         THEN Append(a.event_stream, Event_new(unwrap(a.focus), Simple("Blur")))
                         ELSE a.event_stream,
        log |-> IF blur
                THEN Append(a.log, FocusCall("blur", unwrap(a.focus), a.focus, 0, 0))
                ELSE a.log]

\* EventDispatcher::build_event_stream, with the HashMap iterated in `order`.
\* Returns the dispatcher, the focus, the stream and the focus-tree calls made.
build_event_stream(self, input_list, current_focus, policy, order) ==
    IF is_none(root_node)
    THEN [self |-> self, focus |-> current_focus, event_stream |-> <<>>, log |-> <<>>]
    ELSE resolve_events(self, collect_events(self, input_list, current_focus, policy),
                        input_list, current_focus, order)

(***************************************************************************)
(* Phase 2: dispatch and propagation                                       *)
(***************************************************************************)
\* What the widgets' handlers do in one cycle: the handler of stop_at calls
\* stop_propagation on every event it is given, the handler of prevent_at calls
\* prevent_default on every event it is given (None: no handler does).
\* The handler of overwrite_at assigns a new event to the snapshot it is given:
\* another target, another kind, propagating and not prevented.
Handlers == [stop_at : {None} \cup {Some(n) : n \in Nodes},
             prevent_at : {None} \cup {Some(n) : n \in Nodes},
             overwrite_at : {None} \cup {Some(n) : n \in Nodes}]

\* What a handler assigns to its snapshot: `*event = Event::new(..)`, with a
\* target and a kind that are not the event's
overwritten(node_event) ==
    Event_new(IF node_event.target = 1 THEN 2 ELSE 1,
              IF node_event.event_type.tag = "Click" THEN Simple("Hover") ELSE Simple("Click"))

\* Event::stop_propagation
stop_propagation(event) == [event EXCEPT !.should_propagate = FALSE]
\* Event::prevent_default
prevent_default(event) == [event EXCEPT !.default_prevented = TRUE]

\* Widget::on_event of the widget at `index`: the event as the handler leaves it
on_event(index, node_event, h) ==
    LET e0 == IF h.overwrite_at = Some(index) THEN overwritten(node_event) ELSE node_event
        e1 == IF h.stop_at = Some(index) THEN stop_propagation(e0) ELSE e0
    IN IF h.prevent_at = Some(index) THEN prevent_default(e1) ELSE e1

\* An on_event call, as an entry of the call trace
HandlerCall(index, node_event, after, ev, lvl) ==
    [call |-> "on_event", node |-> index, target |-> node_event.target,
     current_target |-> node_event.current_target,
     event_type |-> node_event.event_type, ev |-> ev, lvl |-> lvl,
     stop |-> node_event.should_propagate /\ ~after.should_propagate,
     prevent |-> after.default_prevented /\ ~node_event.default_prevented,
     seen_prevented |-> node_event.default_prevented,
     overwrote |-> after.target # node_event.target]

\* A propagation that does not look at should_propagate
next_target_unstopped(node_event, index) == get_parent(index)

\* dispatch_events, "Propagate Event" (lines 149-154)
next_target(node_event, index) ==
    IF node_event.should_propagate THEN get_parent(index) ELSE None

\* A dispatch that does not look at default_prevented
runs_default_always(event) == TRUE
\* dispatch_events, the test before execute_default (line 157)
runs_default(event) == ~event.default_prevented

\* A dispatch that goes on with the event as the handler left it
merge_prevented_carrying(event, after) == after

\* dispatch_events, line 147: `event.default_prevented |= node_event.default_prevented`
merge_prevented(event, after) ==
    [event EXCEPT !.default_prevented = @ \/ after.default_prevented]

\* dispatch_events, the while loop over current_target (lines 129-155).
\* Returns the event (with default_prevented accumulated), next_events and the trace.
RECURSIVE propagate(_, _, _, _, _, _, _)
propagate(event, current_target, next_events, trace, ev, lvl, h) ==
    IF is_none(current_target)
    THEN [event |-> event, next_events |-> next_events, log |-> trace]
    ELSE LET index == unwrap(current_target)
             node_event == [event EXCEPT !.current_target = index]
             after == on_event(index, node_event, h)
         IN propagate(merge_prevented(event, after),
                      next_target(after, index),
                      insert_event(next_events, index, node_event.event_type),
                      Append(trace, HandlerCall(index, node_event, after, ev, lvl)),
                      ev, lvl, h)

\* dispatch_events, "Maintain Events" (lines 164-178)
maintain_events(self, next_events) ==
    [n \in Nodes |->
        next_events[n]
        \cup (IF self.is_mouse_pressed /\ Simple("MouseDown") \in self.previous_events[n]
              THEN {Simple("MouseDown")} ELSE {})
        \cup (IF Simple("MouseIn") \in self.previous_events[n]
                 /\ ~contains_event(next_events, n, Simple("MouseOut"))
              THEN {Simple("MouseIn")} ELSE {})]

\* ctx: the dispatcher (self), the focus tree's current node (focus), the trace (log).
RECURSIVE dispatch_loop(_, _, _, _, _, _)
RECURSIVE dispatch_events(_, _, _, _, _)

\* A focus change that forgets the Blur of the node losing the focus
default_events_without_blur(index, current_focus) == <<Event_new(index, Simple("Focus"))>>

\* execute_default, the events of a focus change to `index` (lines 520-525)
default_events(index, current_focus) ==
    <<Event_new(index, Simple("Focus"))>>
    \o (IF is_some(current_focus) /\ unwrap(current_focus) # index
        THEN <<Event_new(unwrap(current_focus), Simple("Blur"))>>
        ELSE <<>>)

\* EventDispatcher::execute_default, for event number ev of a dispatch at level lvl
execute_default(ctx, event, ev, lvl, h) ==
    IF event.event_type.tag = "KeyDown" /\ event.event_type.key = "Tab"
    THEN LET current_focus == ctx.focus
             index == IF event.event_type.mods.is_shift_pressed
                      THEN focus_prev(current_focus)
                      ELSE focus_next(current_focus)
         IN IF is_some(index)
            THEN LET events == default_events(unwrap(index), current_focus)
                 IN dispatch_events(
                        [ctx EXCEPT !.focus = focus_focus(current_focus, unwrap(index)),
                                    !.log = Append(@, FocusCall("focus", unwrap(index),
                                                                current_focus, ev, lvl + 1))],
                        events, ev, lvl + 1, h)
            ELSE ctx
    ELSE ctx

\* dispatch_events, the loop over the events (lines 128-160).
\* acc: ctx, next_events.
dispatch_loop(acc, events, i, ev_outer, lvl, h) ==
    IF i > Len(events) THEN acc
    ELSE LET ev == IF lvl = 0 THEN i ELSE ev_outer
             p == propagate(events[i], Some(events[i].target), acc.next_events,
                            acc.ctx.log, ev, lvl, h)
             ctx1 == [acc.ctx EXCEPT !.log = p.log]
         IN IF runs_default(p.event)
            THEN dispatch_loop([ctx |-> execute_default(ctx1, p.event, ev, lvl, h),
                                next_events |-> p.next_events],
                               events, i + 1, ev_outer, lvl, h)
            ELSE dispatch_loop([ctx |-> ctx1, next_events |-> p.next_events],
                               events, i + 1, ev_outer, lvl, h)

\* EventDispatcher::dispatch_events
dispatch_events(ctx, events, ev_outer, lvl, h) ==
    LET d == dispatch_loop([ctx |-> ctx, next_events |-> EmptyEventMap],
                           events, 1, ev_outer, lvl, h)
    IN [d.ctx EXCEPT !.self.previous_events = maintain_events(d.ctx.self, d.next_events)]

\* The rest of process_events once the stream b is built (lines 114-115)
dispatch_stream(b, h) ==
    LET d == dispatch_events([self |-> b.self, focus |-> b.focus, log |-> b.log],
                             b.event_stream, 0, 0, h)
    IN [self |-> d.self, focus |-> d.focus, event_stream |-> b.event_stream, log |-> d.log]

\* EventDispatcher::process_events
process_events(self, input_list, current_focus, policy, order, h) ==
    dispatch_stream(build_event_stream(self, input_list, current_focus, policy, order), h)

(***************************************************************************)
(* The state machine                                                       *)
(***************************************************************************)
\* PointerEvents::default, the style of every widget that sets none
DefaultPolicy == [n \in Nodes |-> "All"]
\* The styles of the widgets: node 2 has any pointer-events policy
Policies == {p \in [Nodes -> PointerEvents] : \A n \in Nodes \ {2} : p[n] = "All"}

\* The styles of the widgets when the root's style changes: All or None
RootPolicies == {p \in [Nodes -> PointerEvents] :
                    p[1] \in {"All", "None"} /\ \A n \in Nodes \ {1} : p[n] = "All"}

\* EventDispatcher::new
New ==
    /\ is_mouse_pressed = FALSE
    /\ current_mouse_position = 0
    /\ next_mouse_position = 0
    /\ previous_events = EmptyEventMap
    /\ keyboard_modifiers = NoModifiers
    /\ last_clicked = DefaultIndex
    /\ contains_cursor = None
    /\ wants_cursor = None
    /\ has_cursor = None
    /\ focus = None
    /\ pc = "idle"
    /\ input_events = <<>>
    /\ event_stream = <<>>
    /\ log = <<>>
    /\ candidates = <<>>
    /\ best = EventState_default
    /\ modifier_keys = NoModifiers

\* The nodes whose handler is called with some event of the stream
RECURSIVE Chain(_)
Chain(n) == {n} \cup (IF is_none(get_parent(n)) THEN {} ELSE Chain(unwrap(get_parent(n))))
Invoked(stream, tags) ==
    UNION {Chain(stream[i].target) : i \in {j \in 1..Len(stream) : stream[j].event_type.tag \in tags}}

\* The handlers' behaviours worth telling apart for this stream: a handler that
\* is not called, or that stops an event that does not propagate, changes nothing.
\* With `active` false no handler calls stop_propagation or prevent_default.
HandlersFor(stream, active) ==
    LET stoppers == IF active
                    THEN Invoked(stream, {"Hover", "Click", "MouseDown", "MouseUp",
                                          "CharInput", "KeyUp", "KeyDown"})
                    ELSE {}
        preventers == IF active THEN Invoked(stream, {"KeyDown"}) ELSE {}
    IN {[stop_at |-> s, prevent_at |-> p, overwrite_at |-> None] :
            s \in {None} \cup {Some(n) : n \in stoppers},
            p \in {None} \cup {Some(n) : n \in preventers}}

\* The outcomes of process_events(input_list) in the current state: one for each
\* iteration order of the HashMap and each behaviour of the handlers, or the
\* panic of the walk, which leaves nothing of the cycle
Outcomes(input_list, active) ==
    LET c == collect_events(Self, input_list, focus, pointer_events)
    IN IF c.panicked
       THEN {[panicked |-> TRUE, self |-> Self, focus |-> focus,
              event_stream |-> <<>>, log |-> <<>>]}
       ELSE UNION {LET b == resolve_events(Self, c, input_list, focus, order)
                   IN {[panicked |-> FALSE] @@ dispatch_stream(b, h) :
                           h \in HandlersFor(b.event_stream, active)} :
                   order \in Orderings(DOMAIN c.states)}

\* One call of process_events, with raw inputs drawn from `inputs`
ProcessEvents(inputs, active) ==
    /\ pc = "idle"
    /\ \E input_list \in InputLists(inputs) :
         \E r \in Outcomes(input_list, active) :
            /\ is_mouse_pressed' = r.self.is_mouse_pressed
            /\ current_mouse_position' = r.self.current_mouse_position
            /\ next_mouse_position' = r.self.next_mouse_position
            /\ previous_events' = r.self.previous_events
            /\ keyboard_modifiers' = r.self.keyboard_modifiers
            /\ last_clicked' = r.self.last_clicked
            /\ contains_cursor' = r.self.contains_cursor
            /\ wants_cursor' = r.self.wants_cursor
            /\ has_cursor' = r.self.has_cursor
            /\ focus' = r.focus
            /\ input_events' = input_list
            /\ event_stream' = r.event_stream
            /\ log' = r.log
            /\ pc' = IF r.panicked THEN "panic" ELSE "done"
            /\ modifier_keys' = held_after(modifier_keys, input_list)
    /\ UNCHANGED <<pointer_events, candidates, best>>

\* The kinds of event, and the events a caller can hand to dispatch_event
EventTypes ==
    {Simple(tag) : tag \in {"Hover", "Click", "MouseDown", "MouseUp",
                            "MouseIn", "MouseOut", "Focus", "Blur"}}
    \cup {CharInput("a"), KeyDown("Tab", NoModifiers), KeyUp("Tab", NoModifiers)}
Events == {Event_new(n, t) : n \in Nodes, t \in EventTypes}

\* The outcomes of dispatch_event(event) in the current state, for every event
\* and each behaviour of the handlers
DispatchOutcomes ==
    UNION {{dispatch_stream([self |-> Self, focus |-> focus,
                             event_stream |-> <<event>>, log |-> <<>>], h) :
                h \in HandlersFor(<<event>>, TRUE)} :
           event \in Events}

\* One call of dispatch_event
DispatchEvent ==
    /\ pc = "idle"
    /\ \E r \in DispatchOutcomes :
          /\ is_mouse_pressed' = r.self.is_mouse_pressed
          /\ current_mouse_position' = r.self.current_mouse_position
          /\ next_mouse_position' = r.self.next_mouse_position
          /\ previous_events' = r.self.previous_events
          /\ keyboard_modifiers' = r.self.keyboard_modifiers
          /\ last_clicked' = r.self.last_clicked
          /\ contains_cursor' = r.self.contains_cursor
          /\ wants_cursor' = r.self.wants_cursor
          /\ has_cursor' = r.self.has_cursor
          /\ focus' = r.focus
          /\ event_stream' = r.event_stream
          /\ log' = r.log
    /\ input_events' = <<>>
    /\ pc' = "done"
    /\ UNCHANGED <<pointer_events, candidates, best, modifier_keys>>

\* The events handed to dispatch_event while handlers overwrite their snapshots,
\* and the handlers' behaviours
OverwriteEvents ==
    {Event_new(n, t) : n \in {3, 4},
                       t \in {Simple("Click"), Simple("Focus"), KeyDown("Tab", NoModifiers)}}
OverwriteHandlers ==
    {[stop_at |-> s, prevent_at |-> p, overwrite_at |-> o] :
         s \in {None, Some(2)},
         p \in {None, Some(4), Some(2)},
         o \in {None} \cup {Some(n) : n \in Nodes}}
OverwriteOutcomes ==
    UNION {{dispatch_stream([self |-> Self, focus |-> focus,
                             event_stream |-> <<event>>, log |-> <<>>], h) :
                h \in OverwriteHandlers} :
           event \in OverwriteEvents}

\* One call of dispatch_event, with handlers that overwrite their snapshots
DispatchOverwritten ==
    /\ pc = "idle"
    /\ \E r \in OverwriteOutcomes :
          /\ is_mouse_pressed' = r.self.is_mouse_pressed
          /\ current_mouse_position' = r.self.current_mouse_position
          /\ next_mouse_position' = r.self.next_mouse_position
          /\ previous_events' = r.self.previous_events
          /\ keyboard_modifiers' = r.self.keyboard_modifiers
          /\ last_clicked' = r.self.last_clicked
          /\ contains_cursor' = r.self.contains_cursor
          /\ wants_cursor' = r.self.wants_cursor
          /\ has_cursor' = r.self.has_cursor
          /\ focus' = r.focus
          /\ event_stream' = r.event_stream
          /\ log' = r.log
    /\ input_events' = <<>>
    /\ pc' = "done"
    /\ UNCHANGED <<pointer_events, candidates, best, modifier_keys>>

\* process_events returns: its locals are dropped
Return ==
    /\ pc = "done"
    /\ pc' = "idle"
    /\ input_events' = <<>>
    /\ event_stream' = <<>>
    /\ log' = <<>>
    /\ UNCHANGED <<is_mouse_pressed, current_mouse_position, next_mouse_position,
                   previous_events, keyboard_modifiers, last_clicked,
                   contains_cursor, wants_cursor, has_cursor, focus, pointer_events,
                   candidates, best, modifier_keys>>

\* Between two cycles a render gives the root widget another pointer_events
\* style: build_event_stream resolves the style anew in every cycle
Restyle ==
    /\ pc = "idle"
    /\ pointer_events' \in RootPolicies \ {pointer_events}
    /\ UNCHANGED <<is_mouse_pressed, current_mouse_position, next_mouse_position,
                   previous_events, keyboard_modifiers, last_clicked,
                   contains_cursor, wants_cursor, has_cursor, focus,
                   pc, input_events, event_stream, log, candidates, best, modifier_keys>>

\* Between two cycles the widget of a leaf node is removed from current_widgets
\* while the node is still in the tree
RemoveWidget ==
    /\ pc = "idle"
    /\ \E n \in {3, 4} :
           /\ pointer_events[n] # Absent
           /\ pointer_events' = [pointer_events EXCEPT ![n] = Absent]
    /\ UNCHANGED <<is_mouse_pressed, current_mouse_position, next_mouse_position,
                   previous_events, keyboard_modifiers, last_clicked,
                   contains_cursor, wants_cursor, has_cursor, focus,
                   pc, input_events, event_stream, log, candidates, best, modifier_keys>>

\* A leaf that is not focused is removed from the tree between two cycles
RemoveNode ==
    /\ pc = "idle"
    /\ \E n \in {3, 4} :
           /\ pointer_events[n] # Detached
           /\ focus # Some(n)
           /\ pointer_events' = [pointer_events EXCEPT ![n] = Detached]
    /\ UNCHANGED <<is_mouse_pressed, current_mouse_position, next_mouse_position,
                   previous_events, keyboard_modifiers, last_clicked,
                   contains_cursor, wants_cursor, has_cursor, focus,
                   pc, input_events, event_stream, log, candidates, best, modifier_keys>>

\* A new dispatcher over widgets of the default style, and over widgets of every style
Init == New /\ pointer_events = DefaultPolicy
InitStyles == New /\ pointer_events \in Policies

\* A session of pointer input over widgets of the default style
Next == ProcessEvents(PointerInputs, TRUE) \/ Return
Spec == Init /\ [][Next]_vars

\* A session of keyboard input, with presses of the pointer's button
NextKeys == ProcessEvents(KeyInputs, TRUE) \/ Return
SpecKeys == Init /\ [][NextKeys]_vars

\* The same session on a thread that keeps running: every step of the session
\* is the start or the return of a call (pc changes), and one is always taken
Proceeds == pc' \in {"idle", "done", "panic"} /\ pc' # pc
SpecKeysFair == SpecKeys /\ WF_pc(Proceeds)

\* A session of pointer input and Tab presses, with passive handlers
NextMixed == ProcessEvents(MixedInputs, FALSE) \/ Return
SpecMixed == Init /\ [][NextMixed]_vars

\* A session of typing and pointer input, with passive handlers
NextType == ProcessEvents(TypeInputs, FALSE) \/ Return
SpecType == Init /\ [][NextType]_vars

\* A session of pointer input while leaves are removed from the tree
NextDetach == ProcessEvents(PointerInputs, FALSE) \/ Return \/ RemoveNode
SpecDetach == Init /\ [][NextDetach]_vars

\* A session of presses and releases while the root's style changes
NextRestyle == ProcessEvents(ButtonInputs, FALSE) \/ Return \/ Restyle
SpecRestyle == Init /\ [][NextRestyle]_vars

\* A session of pointer input while widgets are removed
NextRemove == ProcessEvents(PointerInputs, FALSE) \/ Return \/ RemoveWidget
SpecRemove == Init /\ [][NextRemove]_vars

\* A session of single events handed to dispatch_event, with handlers that
\* overwrite the snapshot they are given
NextOverwrite == DispatchOverwritten \/ Return
SpecOverwrite == Init /\ [][NextOverwrite]_vars

\* A session of single events handed to dispatch_event
NextDispatch == DispatchEvent \/ Return
SpecDispatch == Init /\ [][NextDispatch]_vars

\* update_state is offered one more candidate for the event kind: a node not
\* offered before, of any depth and z-index
Offer ==
    /\ Len(candidates) < MaxOffers
    /\ \E depth \in Depths, z \in ZIndexes :
          LET node == Len(candidates) + 1
          IN /\ candidates' = Append(candidates, [node |-> node, depth |-> depth, z |-> z])
             /\ best' = update_rule(best, node, depth, z)
    /\ UNCHANGED <<is_mouse_pressed, current_mouse_position, next_mouse_position,
                   previous_events, keyboard_modifiers, last_clicked,
                   contains_cursor, wants_cursor, has_cursor, focus, pointer_events,
                   pc, input_events, event_stream, log, modifier_keys>>

\* The candidates of one event kind in one walk, offered in any order
NextBest == Offer
SpecBest == Init /\ [][NextBest]_vars

\* A session of pointer input over widgets of every style, with passive handlers
NextStyles == ProcessEvents(PointerInputs, FALSE) \/ Return
SpecStyles == InitStyles /\ [][NextStyles]_vars

(***************************************************************************)
(* Properties of the call trace of one cycle                               *)
(***************************************************************************)
\* The entries of a trace that are on_event calls
Calls(l) == {j \in DOMAIN l : l[j].call = "on_event"}
\* The on_event calls of a trace with an event of this kind
CallsOf(l, tag) == {j \in Calls(l) : l[j].event_type.tag = tag}
\* Two on_event calls of a trace are made for the same event instance
SameInstance(l, j, k) ==
    /\ l[j].ev = l[k].ev
    /\ l[j].lvl = l[k].lvl
    /\ l[j].target = l[k].target
    /\ l[j].event_type = l[k].event_type
StrictAncestors(n) == Chain(n) \ {n}
Subtree(n) == {m \in Nodes : n \in Chain(m)}
IsTab(event_type) == event_type.tag = "KeyDown" /\ event_type.key = "Tab"
\* The nodes that are the target of a dispatched event of this kind
Targets(l, tag) == {l[j].target : j \in CallsOf(l, tag)}
\* The events of a stream of this kind
EventsOf(stream, tag) == {i \in DOMAIN stream : stream[i].event_type.tag = tag}
\* One step of the session is a whole call of process_events
Cycle == pc = "idle" /\ pc' = "done"

\* C1. stop_propagation: when the handler at node N stops an event it is given,
\* no other handler is called for that event instance after N's, and none of
\* the calls made for it is at an ancestor of N: the chain ends at N.
C1_StopPropagation ==
    \A j \in Calls(log) :
        log[j].stop =>
            \A k \in Calls(log) :
                (k # j /\ SameInstance(log, j, k)) =>
                    (k < j /\ log[k].node \notin StrictAncestors(log[j].node))

\* The handler of node 2 stopped an event targeted at its child 4
C1_Witness ==
    \E j \in Calls(log) : log[j].stop /\ log[j].node = 2 /\ log[j].target = 4

\* C2. prevent_default: when a handler on the chain of a KeyDown(Tab) event calls
\* prevent_default, nothing is done on behalf of that event below the top-level
\* dispatch: no focus-tree call and no call of a handler with a synthesized event.
C2_PreventDefault ==
    \A j \in Calls(log) :
        (log[j].lvl = 0 /\ IsTab(log[j].event_type) /\ log[j].prevent) =>
            \A k \in DOMAIN log : ~(log[k].ev = log[j].ev /\ log[k].lvl > 0)

\* An ancestor of the focused node prevented the default action of a Tab press
C2_Witness ==
    \E j \in Calls(log) :
        /\ log[j].lvl = 0 /\ IsTab(log[j].event_type) /\ log[j].prevent
        /\ log[j].node # log[j].target

\* C3, as stated. Best-match uniqueness: in one cycle, the events synthesized by
\* default actions included, at most one node is the target of a Focus event,
\* at most one of a Hover event and at most one of a Click event.
C3_BestMatchUnique ==
    \A tag \in {"Focus", "Hover", "Click"} : Cardinality(Targets(log, tag)) <= 1

\* The Focus events a default action run for event number i of the stream dispatched
SynthesizedFocus(l, i) == {j \in CallsOf(l, "Focus") : l[j].lvl > 0 /\ l[j].ev = i}

\* C3, amended. The stream built from the raw inputs holds at most one Focus, one
\* Hover and one Click event, so at most one node is the target of a Hover event
\* and at most one of a Click event in a cycle; the default action of each
\* KeyDown(Tab) of the stream dispatches at most one Focus event more.
C3_BestMatchUniqueInStream ==
    /\ \A tag \in {"Focus", "Hover", "Click"} :
           Cardinality(EventsOf(event_stream, tag)) <= 1
    /\ \A tag \in {"Hover", "Click"} : Cardinality(Targets(log, tag)) <= 1
    /\ \A i \in DOMAIN event_stream : Cardinality(SynthesizedFocus(log, i)) <= 1

\* A press and a release where all four nodes overlap the pointer gave one Focus
\* and one Click event
C3_Witness ==
    /\ \A n \in Nodes : contains(n, current_mouse_position)
    /\ EventsOf(event_stream, "Focus") # {}
    /\ EventsOf(event_stream, "Click") # {}

\* The raw inputs of a tick hold no pointer movement
NoMovement(l) == \A i \in DOMAIN l : l[i].input # "MouseMoved"
\* The button is down and was pressed where the pointer is: the nodes that have
\* MouseDown in the previous cycle's state are the nodes under the pointer
PressedHere ==
    /\ is_mouse_pressed
    /\ \E n \in Nodes : contains(n, current_mouse_position)
    /\ \A n \in Nodes :
           contains_event(previous_events, n, Simple("MouseDown"))
               <=> contains(n, current_mouse_position)

\* C4, as stated. Click round-trip: when the button, pressed where the pointer
\* still is, is released, the node the cycle's Click event is targeted at is the
\* node last_clicked holds after the cycle.
C4_ClickRoundTrip ==
    [][(Cycle /\ PressedHere /\ input_events' = <<MouseLeftRelease>>) =>
           /\ EventsOf(event_stream', "Click") # {}
           /\ \A i \in EventsOf(event_stream', "Click") :
                  last_clicked' = event_stream'[i].target]_vars

\* The raw inputs of a tick hold a release with no press after it
ReleaseLast(l) ==
    \E i \in DOMAIN l :
        l[i] = MouseLeftRelease /\ \A k \in DOMAIN l : k > i => l[k] # MouseLeftPress
\* The raw inputs of a tick hold neither a press nor a release
NoButton(l) == \A i \in DOMAIN l : l[i] \notin {MouseLeftPress, MouseLeftRelease}

\* C5, as stated. Persistent PointerDown: a node that has MouseDown in the state
\* while the button is down still has it after a cycle without press or release
\* (Tab default actions included), and no node that had MouseDown has it after a
\* cycle whose raw inputs hold a release with no press after it.
C5_PersistentPointerDown ==
    [][Cycle =>
           \A n \in Nodes :
               contains_event(previous_events, n, Simple("MouseDown")) =>
                   /\ (is_mouse_pressed /\ NoButton(input_events')) =>
                          contains_event(previous_events', n, Simple("MouseDown"))
                   /\ ReleaseLast(input_events') =>
                          ~contains_event(previous_events', n, Simple("MouseDown"))]_vars

\* The calls that hand an event of this kind to its target
Dispatched(l, tag) == {j \in CallsOf(l, tag) : l[j].node = l[j].target}

\* C6, as stated. Tab from no focus: a tick with one Tab press, with no node
\* focused and no modifier held, ends with the first node of the focus order
\* focused, one Focus event dispatched, to that node, and no Blur event.
C6_TabFromNoFocus ==
    [][(Cycle /\ is_none(focus) /\ keyboard_modifiers = NoModifiers
              /\ input_events' = <<Keyboard("Tab", TRUE)>>) =>
           /\ focus' = Some(focus_order[1])
           /\ Cardinality(Dispatched(log', "Focus")) = 1
           /\ \A j \in Dispatched(log', "Focus") : log'[j].node = focus_order[1]
           /\ Dispatched(log', "Blur") = {}]_vars

\* Event number i of the stream is the first KeyDown(Tab) of a tick without a
\* press, it is made without Shift and no handler called prevent_default on it
PlainTab(stream, l, inputs, i) ==
    /\ i \in DOMAIN stream
    /\ IsTab(stream[i].event_type)
    /\ ~stream[i].event_type.mods.is_shift_pressed
    /\ \A k \in 1..(i - 1) : ~IsTab(stream[k].event_type)
    /\ \A k \in DOMAIN inputs : inputs[k] # MouseLeftPress
    /\ \A j \in Calls(l) : l[j].ev = i => ~l[j].prevent

\* The default action of event number i moved the focus from a to b: the focus
\* tree was told to focus b, a was given Blur and b was given Focus, the first
\* of the pair being the event `first`; both calls come after the handlers of
\* event i and before the handlers of every later event of the stream.
FocusMoved(l, i, a, b, first) ==
    /\ \E j \in DOMAIN l :
           l[j].call = "focus" /\ l[j].node = b /\ l[j].target = Some(a)
           /\ l[j].ev = i /\ l[j].lvl = 1
    /\ \E jb \in Dispatched(l, "Blur"), jf \in Dispatched(l, "Focus") :
           /\ l[jb].node = a /\ l[jb].ev = i /\ l[jb].lvl = 1
           /\ l[jf].node = b /\ l[jf].ev = i /\ l[jf].lvl = 1
           /\ IF first = "Blur" THEN jb < jf ELSE jf < jb
           /\ \A k \in Calls(l) :
                  l[k].lvl = 0 =>
                      /\ l[k].ev <= i => (k < jb /\ k < jf)
                      /\ l[k].ev > i => (k > jb /\ k > jf)

\* C7, as stated. Tab between two focusable nodes: with the first node of the
\* focus order focused, a Tab press without Shift that is not default-prevented
\* moves the focus to the second node and dispatches Blur for the first and then
\* Focus for the second, inside the dispatch of the Tab event.
C7_TabBlurThenFocus ==
    [][(Cycle /\ focus = Some(focus_order[1])) =>
           \A i \in DOMAIN event_stream' :
               PlainTab(event_stream', log', input_events', i) =>
                   FocusMoved(log', i, focus_order[1], focus_order[2], "Blur")]_vars

\* C7, amended. The same, with the Focus for the second node dispatched before
\* the Blur for the first.
C7_TabFocusThenBlur ==
    [][(Cycle /\ focus = Some(focus_order[1])) =>
           \A i \in DOMAIN event_stream' :
               PlainTab(event_stream', log', input_events', i) =>
                   FocusMoved(log', i, focus_order[1], focus_order[2], "Focus")]_vars

\* A Tab press that no handler prevented moved the focus from the first node of
\* the focus order to the second
C7_Witness ==
    \E i \in DOMAIN event_stream :
        /\ PlainTab(event_stream, log, input_events, i)
        /\ FocusMoved(log, i, focus_order[1], focus_order[2], "Focus")

\* The points of the pointer movements of a tick
MovedTo(l) == {l[i].point : i \in {k \in DOMAIN l : l[k].input = "MouseMoved"}}
\* The events of a stream of this kind targeted at node n
EventsAt(stream, tag, n) == {i \in EventsOf(stream, tag) : stream[i].target = n}

\* C8, as stated. PointerEnter exactly once: a tick whose pointer movements take
\* the pointer from outside a node's rectangle to inside it emits one MouseIn for
\* the node, and a tick whose movements all stay inside the rectangle the
\* pointer is in emits neither MouseIn nor MouseOut for it.
C8_PointerEnterOnce ==
    [][Cycle =>
           \A n \in Nodes :
               (processes_node(pointer_events[n])
                /\ \A point \in MovedTo(input_events') : contains(n, point)) =>
                   /\ (~contains(n, current_mouse_position) /\ MovedTo(input_events') # {}) =>
                          /\ Cardinality(EventsAt(event_stream', "MouseIn", n)) = 1
                          /\ EventsAt(event_stream', "MouseOut", n) = {}
                   /\ contains(n, current_mouse_position) =>
                          /\ EventsAt(event_stream', "MouseIn", n) = {}
                          /\ EventsAt(event_stream', "MouseOut", n) = {}]_vars

\* The on_event calls of a trace with an event of the Mouse category
MouseCalls(l) == {j \in Calls(l) : event_category(l[j].event_type) = "Mouse"}

\* C9. PointerEvents None: no handler of a node whose policy is None, and no
\* handler of a node below it, is called with an event of the Mouse category.
C9_PolicyNone ==
    \A n \in Nodes :
        pointer_events[n] = "None" =>
            \A j \in MouseCalls(log) : log[j].node \notin Subtree(n)

\* The button was pressed over node 2, whose policy is None, and its child 4,
\* and the root was given MouseDown
C9_Witness ==
    /\ pointer_events[2] = "None"
    /\ contains(2, current_mouse_position) /\ contains(4, current_mouse_position)
    /\ NoMovement(input_events)
    /\ \E j \in CallsOf(log, "MouseDown") : log[j].node = 1

\* C10, as stated. PointerEvents ChildrenOnly: the handler of a node whose policy
\* is ChildrenOnly is never called with an event of the Mouse category, and the
\* nodes below it that are under the pointer at a press are given MouseDown.
C10_ChildrenOnly ==
    \A n \in Nodes :
        pointer_events[n] = "ChildrenOnly" =>
            /\ \A j \in MouseCalls(log) : log[j].node # n
            /\ (NoMovement(input_events)
                /\ \E i \in DOMAIN input_events : input_events[i] = MouseLeftPress) =>
                   \A m \in Subtree(n) \ {n} :
                       contains(m, current_mouse_position) =>
                           \E j \in Dispatched(log, "MouseDown") : log[j].node = m

\* C11, as stated. Global release reset: after a cycle whose raw inputs hold a
\* release with no press after it, the press flag is false and no node owns the
\* cursor, whatever the widgets' pointer_events styles are.
C11_GlobalReleaseReset ==
    [][(Cycle /\ is_some(root_node) /\ ReleaseLast(input_events')) =>
           (~is_mouse_pressed' /\ is_none(has_cursor'))]_vars

\* C12, as stated. Absent nodes are skipped, never fatal: no dispatch cycle ends
\* in a panic, also when a node of the tree has no widget in the store.
C12_NeverPanics == pc # "panic"

\* EventDispatcher::contains_cursor, wants_cursor and has_cursor, the accessors
get_contains_cursor(c) == unwrap_or_default(c)
get_wants_cursor(w, h) == unwrap_or_default(w) \/ is_some(h)
get_has_cursor(h) == is_some(h)

\* C13, as stated. contains_cursor: after a cycle with a pointer movement,
\* contains_cursor() is true exactly if the last point of the tick lies in the
\* rectangle of a widget that can contain the cursor; after a cycle without
\* pointer movement it is what it was.
C13_ContainsCursor ==
    [][Cycle =>
           IF MovedTo(input_events') # {}
           THEN get_contains_cursor(contains_cursor')
                    <=> \E n \in Nodes : /\ can_contain_cursor(n)
                                         /\ contains(n, current_mouse_position')
           ELSE get_contains_cursor(contains_cursor')
                    = get_contains_cursor(contains_cursor)]_vars

\* The raw inputs of a tick hold no release
NoRelease(l) == \A i \in DOMAIN l : l[i] # MouseLeftRelease

\* C14. has_cursor during a drag: while a node owns the cursor, every cycle
\* without a release leaves the same node the owner, so has_cursor() and
\* wants_cursor() are true after it, wherever the pointer moves.
C14_HasCursorDuringDrag ==
    [][(Cycle /\ is_some(has_cursor) /\ NoRelease(input_events')) =>
           /\ has_cursor' = has_cursor
           /\ get_has_cursor(has_cursor')
           /\ get_wants_cursor(wants_cursor', has_cursor')]_vars

\* After a press made a node the cursor owner, a cycle moved the pointer out of
\* the owner's rectangle with the button held
C14_Witness ==
    /\ pc = "done"
    /\ is_some(has_cursor)
    /\ NoButton(input_events) /\ MovedTo(input_events) # {}
    /\ ~contains(unwrap(has_cursor), current_mouse_position)
    /\ is_mouse_pressed

\* The nodes from n up to the root, child first
RECURSIVE PathUp(_)
PathUp(n) ==
    <<n>> \o (IF is_none(get_parent(n)) THEN <<>> ELSE PathUp(unwrap(get_parent(n))))
\* The on_event calls of a trace made for the event instance of call j
InstanceOf(l, j) == {k \in Calls(l) : SameInstance(l, j, k)}
\* The calls ks are made at the first `len` nodes of the path up from n, in order
AlongPath(l, ks, n, len) ==
    /\ Cardinality(ks) = len
    /\ \A k \in ks : l[k].node = PathUp(n)[Cardinality({k2 \in ks : k2 <= k})]

\* C15. Propagation by kind: an event of kind MouseIn, MouseOut, Focus or Blur
\* is given to its target only; an event of any other kind that no handler
\* stops is given to its target and then to each ancestor up to the root, in
\* child-to-parent order, each once.
C15_PropagationByKind ==
    \A j \in Calls(log) :
        LET ks == InstanceOf(log, j)
            target == log[j].target
        IN IF log[j].event_type.tag \in {"MouseIn", "MouseOut", "Focus", "Blur"}
           THEN AlongPath(log, ks, target, 1)
           ELSE (\A k \in ks : ~log[k].stop) =>
                    AlongPath(log, ks, target, Len(PathUp(target)))

\* A KeyDown(Tab) targeted at node 4 was given to nodes 4, 2 and the root, and
\* the Blur of its default action was given to node 4 alone
C15_Witness ==
    /\ \E j \in CallsOf(log, "KeyDown") : log[j].target = 4 /\ log[j].node = 1
    /\ \E j \in CallsOf(log, "Blur") : log[j].target = 4 /\ log[j].lvl = 1
    /\ \A j \in Calls(log) : ~log[j].stop

\* The candidate offered k-th is the best of the candidates offered: none has a
\* higher z-index, none with its z-index is deeper, and none equal in both was
\* offered later
BestOf(offered, k) ==
    \A i \in DOMAIN offered :
        /\ offered[i].z <= offered[k].z
        /\ offered[i].z = offered[k].z => offered[i].depth <= offered[k].depth
        /\ (offered[i].z = offered[k].z /\ offered[i].depth = offered[k].depth) => i <= k

\* C16. Best-match resolution: after every sequence of candidates the best match
\* is the candidate of highest z-index, deepest among those, last offered among
\* the candidates equal in both; and a candidate whose z-index is lower than the
\* best's leaves the best as it is.
C16_BestMatchResolution ==
    [][candidates' # candidates =>
           LET new == candidates'[Len(candidates')]
           IN /\ \E k \in DOMAIN candidates' :
                     /\ best'.best_match = Some(candidates'[k].node)
                     /\ best'.best_z_index = candidates'[k].z
                     /\ best'.best_depth = candidates'[k].depth
                     /\ BestOf(candidates', k)
              /\ (candidates # <<>> /\ new.z < best.best_z_index) => best' = best]_vars

\* Three candidates were offered and the second is the best: the third is
\* deeper but lower, the first is as high but less deep
C16_Witness ==
    /\ Len(candidates) = 3
    /\ best.best_match = Some(2)
    /\ candidates[3].depth > candidates[2].depth /\ candidates[3].z < candidates[2].z
    /\ candidates[1].z = candidates[2].z /\ candidates[1].depth < candidates[2].depth

\* The depth at which the walk visits a node
DepthOf(n) == Cardinality(StrictAncestors(n))
\* The focusable nodes whose rectangle contains the point
FocusableAt(point) == {n \in Nodes : get_focusable(n) = Some(TRUE) /\ contains(n, point)}
\* The best match among the nodes: highest z-index, deepest among those
BestAmong(nodes) ==
    {w \in nodes : \A n \in nodes :
        /\ z_index[n] <= z_index[w]
        /\ z_index[n] = z_index[w] => DepthOf(n) <= DepthOf(w)}
\* The raw inputs of a tick hold no keyboard input
NoKeys(l) == \A i \in DOMAIN l : category(l[i]) = "Mouse"
\* The raw inputs of a tick hold a primary press
HasPress(l) == \E i \in DOMAIN l : l[i] = MouseLeftPress

RingCalls(l) == {j \in DOMAIN l : l[j].call \in {"focus", "blur"} /\ l[j].lvl = 0}

\* C18. Blur on miss: in a cycle with a primary press whose stream holds no
\* Focus event, a focused node F gets exactly one Blur event in the stream and
\* the ring is left without focus, and with nothing focused the stream holds no
\* Blur; in a cycle without a press and without a Focus event Phase 1 leaves
\* the ring's focus as it was.
C18_BlurOnMiss ==
    [][(Cycle /\ EventsOf(event_stream', "Focus") = {}) =>
           /\ (HasPress(input_events') /\ is_some(focus)) =>
                  /\ Cardinality(EventsOf(event_stream', "Blur")) = 1
                  /\ EventsOf(event_stream', "Blur") = EventsAt(event_stream', "Blur", unwrap(focus))
                  /\ Cardinality(RingCalls(log')) = 1
                  /\ \A j \in RingCalls(log') : log'[j].call = "blur"
                  /\ NoKeys(input_events') => is_none(focus')
           /\ (HasPress(input_events') /\ is_none(focus)) =>
                  /\ EventsOf(event_stream', "Blur") = {}
                  /\ RingCalls(log') = {}
           /\ ~HasPress(input_events') =>
                  /\ RingCalls(log') = {}
                  /\ NoKeys(input_events') => focus' = focus]_vars

\* A press with the pointer over no node took the focus from node 3: the stream
\* holds the Blur for node 3 and the ring has no current node
C18_Witness ==
    /\ pc = "done"
    /\ HasPress(input_events)
    /\ EventsOf(event_stream, "Focus") = {}
    /\ EventsAt(event_stream, "Blur", 3) # {}
    /\ \E j \in RingCalls(log) : log[j].call = "blur" /\ log[j].target = Some(3)
    /\ is_none(focus)

\* The keyboard events of a stream and the keyboard inputs of a tick, in order
IsKeyEvent(e) == e.event_type.tag \in {"KeyDown", "KeyUp", "CharInput"}
IsKeyInput(i) == category(i) = "Keyboard"
IsPointerEvent(e) == e.event_type.tag \in {"MouseIn", "MouseOut", "MouseDown", "MouseUp"}
\* The event is the one event made of the raw input, for the node
EventOfInput(e, i, node) ==
    /\ e.target = node
    /\ i.input = "CharEvent" => e.event_type.tag = "CharInput" /\ e.event_type.c = i.c
    /\ i.input = "Keyboard" =>
           /\ e.event_type.tag = (IF i.is_pressed THEN "KeyDown" ELSE "KeyUp")
           /\ e.event_type.key = i.key

\* C19. Keyboard targeting: the key and char inputs of a tick make one event
\* each, in their order, targeted at the node that was focused when the cycle
\* began, also when a press of the tick moves the focus, and placed after every
\* MouseIn, MouseOut, MouseDown and MouseUp event of the stream; with no node
\* focused they make no event.
C19_KeyboardTargeting ==
    [][Cycle =>
           LET keys == SelectSeq(event_stream', IsKeyEvent)
               typed == SelectSeq(input_events', IsKeyInput)
           IN /\ is_none(focus) => keys = <<>>
              /\ is_some(focus) =>
                     /\ Len(keys) = Len(typed)
                     /\ \A k \in DOMAIN keys : EventOfInput(keys[k], typed[k], unwrap(focus))
              /\ \A i, j \in DOMAIN event_stream' :
                     (IsKeyEvent(event_stream'[i]) /\ IsPointerEvent(event_stream'[j])) => j < i]_vars

\* A tick with a press before a char input, with node 4 focused and the pointer
\* over node 3: the press moved the focus to node 3, the CharInput went to node
\* 4, after the MouseDown events
C19_Witness ==
    /\ pc = "done"
    /\ input_events = <<MouseLeftPress, CharEvent("a")>>
    /\ focus = Some(3)
    /\ \E i \in EventsAt(event_stream, "CharInput", 4) :
           /\ EventsAt(event_stream, "Blur", 4) # {}
           /\ \A j \in EventsOf(event_stream, "MouseDown") : j < i

\* The KeyDown and KeyUp events of a stream
IsKeyboardEvent(e) == e.event_type.tag \in {"KeyDown", "KeyUp"}
\* The position in the raw inputs of the k-th key input
KeyboardAt(l, k) ==
    {n \in DOMAIN l : /\ l[n].input = "Keyboard"
                      /\ Cardinality({m \in 1..n : l[m].input = "Keyboard"}) = k}

\* C20. Modifier snapshot: the modifiers carried by every KeyDown and KeyUp event
\* are the modifier keys held down at its raw input, the event's own key
\* included, whether or not a node was focused when they were pressed or
\* released.
C20_ModifierSnapshot ==
    [][Cycle =>
           LET keys == SelectSeq(event_stream', IsKeyboardEvent)
           IN \A k \in DOMAIN keys :
                  \A n \in KeyboardAt(input_events', k) :
                      keys[k].event_type.mods =
                          held_after(modifier_keys, SubSeq(input_events', 1, n))]_vars

\* C21. Stale persistent entries are dropped: once a cycle has completed, a
\* node that was removed from the tree before the cycle began has no entry, of
\* any event kind, in previous_events.
C21_StaleEntriesDropped ==
    pc = "done" =>
        \A n \in Nodes : pointer_events[n] = Detached => previous_events[n] = {}

\* C22. Every handler invocation is recorded: when process_events has completed,
\* previous_events holds, for every handler call of the cycle, the kind of the
\* event in the entry of the node called, the Focus and Blur events dispatched
\* by the default action of Tab included.
C22_InvocationsRecorded ==
    pc = "done" =>
        \A j \in Calls(log) :
            contains_event(previous_events, log[j].node, log[j].event_type)

\* The raw inputs of a tick hold a primary release
HasRelease(l) == \E i \in DOMAIN l : l[i] = MouseLeftRelease

\* C23. No Click without a prior press: every Click event of a cycle targets a
\* node that had MouseDown in the state left by the previous cycle and whose
\* rectangle contains the last-known pointer position; a press and a release in
\* one tick, with no MouseDown recorded for a node under the pointer, give the
\* node MouseDown and MouseUp and no Click.
C23_NoClickWithoutPress ==
    [][Cycle =>
           /\ \A i \in EventsOf(event_stream', "Click") :
                  LET n == event_stream'[i].target
                  IN /\ contains_event(previous_events, n, Simple("MouseDown"))
                     /\ contains(n, current_mouse_position)
           /\ (HasPress(input_events') /\ HasRelease(input_events')) =>
                  \A n \in Nodes :
                      (contains(n, current_mouse_position)
                       /\ ~contains_event(previous_events, n, Simple("MouseDown"))) =>
                          /\ EventsAt(event_stream', "MouseDown", n) # {}
                          /\ EventsAt(event_stream', "MouseUp", n) # {}
                          /\ EventsAt(event_stream', "Click", n) = {}]_vars

\* A tick with a release, after a cycle that left MouseDown for node 4: the
\* stream holds a Click for node 4
C23_Witness ==
    /\ pc = "done"
    /\ HasRelease(input_events)
    /\ EventsAt(event_stream, "Click", 4) # {}

\* A tick with a press and then a release on a fresh dispatcher: the stream holds
\* MouseDown and MouseUp for node 4 and no Click
C23_WitnessSameTick ==
    /\ pc = "done"
    /\ input_events = <<MouseLeftPress, MouseLeftRelease>>
    /\ EventsAt(event_stream, "MouseDown", 4) # {}
    /\ EventsAt(event_stream, "MouseUp", 4) # {}
    /\ EventsOf(event_stream, "Click") = {}

\* The pointer movements of a tick, in order
Moves(l) == SelectSeq(l, LAMBDA i : i.input = "MouseMoved")
\* The number of the movements of a tick that take the pointer from one side of
\* the node's rectangle, seen from position `from`, to the other
Crossings(l, n, from, entering) ==
    Cardinality({k \in DOMAIN Moves(l) :
                    /\ contains(n, from) # contains(n, Moves(l)[k].point)
                    /\ contains(n, Moves(l)[k].point) = entering})

CreatedAs(stream, l, j) ==
    IF l[j].lvl = 0
    THEN /\ l[j].target = stream[l[j].ev].target
         /\ l[j].event_type = stream[l[j].ev].event_type
    ELSE /\ l[j].event_type \in {Simple("Focus"), Simple("Blur")}
         /\ \E k \in Calls(l) : /\ k <= j /\ SameInstance(l, j, k)
                                /\ l[k].node = l[k].target

\* C25. Per-node snapshot isolation: every handler of a propagation chain is
\* given a snapshot with the target and the kind the event was created with and
\* with itself as current_target, whatever the handlers before it assigned to
\* theirs; default_prevented, once a handler has set it, is set in the snapshot
\* of every later handler of the chain, and keeps the default action from running.
C25_SnapshotIsolation ==
    \A j \in Calls(log) :
        /\ CreatedAs(event_stream, log, j)
        /\ log[j].current_target = log[j].node
        /\ \A k \in Calls(log) :
               (k < j /\ SameInstance(log, j, k) /\ (log[k].prevent \/ log[k].seen_prevented))
                   => log[j].seen_prevented
        /\ (log[j].prevent /\ log[j].lvl = 0) =>
               \A k \in DOMAIN log : ~(log[k].ev = log[j].ev /\ log[k].lvl > 0)

\* A Tab event for node 4 whose handler at node 4 prevented the default action
\* and overwrote its snapshot: nodes 2 and 1 got the event as it was created,
\* with default_prevented set, and the focus did not move
C25_Witness ==
    /\ pc = "done"
    /\ event_stream = <<Event_new(4, KeyDown("Tab", NoModifiers))>>
    /\ \E j, k, r \in Calls(log) :
           /\ log[j].node = 4 /\ log[j].prevent /\ log[j].overwrote
           /\ log[k].node = 2 /\ log[k].seen_prevented /\ IsTab(log[k].event_type)
           /\ log[r].node = 1 /\ log[r].seen_prevented /\ log[r].target = 4
    /\ Len(log) = 3

\* The number of raw inputs of a tick that are this one
CountOf(l, input) == Cardinality({i \in DOMAIN l : l[i] = input})

\* The shape of a completed cycle: the walk has visited each node at most once and after its
\* parent (a node has at most one MouseDown per press, after those of its
\* ancestors), every propagation chain runs up the target's path, each node at
\* most once, and the nested dispatch was entered from the default action of a
\* Tab event only, one level deep, between the handlers of that event and those
\* of the next one.
BoundedReentrancy ==
    pc = "done" =>
        /\ \A n \in Nodes :
               Cardinality(EventsAt(event_stream, "MouseDown", n))
                   <= CountOf(input_events, MouseLeftPress)
        /\ \A i, j \in EventsOf(event_stream, "MouseDown") :
               event_stream[i].target \in StrictAncestors(event_stream[j].target) => i < j
        /\ \A j \in Calls(log) :
               /\ log[j].node \in Chain(log[j].target)
               /\ \A k \in InstanceOf(log, j) : k # j => log[k].node # log[j].node
        /\ \A j \in DOMAIN log :
               /\ log[j].lvl <= 1
               /\ log[j].lvl = 1 =>
                      /\ IsTab(event_stream[log[j].ev].event_type)
                      /\ log[j].event_type.tag \in {"Focus", "Blur"}
                      /\ \A k \in Calls(log) :
                             log[k].lvl = 0 =>
                                 /\ log[k].ev <= log[j].ev => k < j
                                 /\ log[k].ev > log[j].ev => k > j

ReleaseThenPress(l) ==
    \E i, j \in DOMAIN l : i < j /\ l[i] = MouseLeftRelease /\ l[j] = MouseLeftPress
\* A tick that holds a press and, after it, a release
PressThenRelease(l) ==
    \E i, j \in DOMAIN l : i < j /\ l[i] = MouseLeftPress /\ l[j] = MouseLeftRelease

\* C27. Cursor ownership implies a held button: in every state of the
\* dispatcher, between the cycles and after each, a node that owns the cursor
\* (has_cursor() is true) goes with the mouse-pressed flag set, and no two nodes
\* own the cursor; and in every cycle, whatever the order of the presses and
\* releases of the tick, the same holds after every step of the walk, that is
\* after each node has processed each pointer input.
C27_OwnerImpliesPressed ==
    /\ [](/\ get_has_cursor(has_cursor) => is_mouse_pressed
          /\ Cardinality({n \in Nodes : has_cursor = Some(n)}) <= 1
          /\ has_cursor \in {None} \cup {Some(n) : n \in Nodes})
    /\ [][pc = "idle" /\ pc' # "idle" =>
             collect_events(Self, input_events', focus, pointer_events).cursor_held]_vars

\* A tick with a release and then a press, over a node that can own the cursor:
\* after the cycle a node under the pointer owns the cursor and the flag is set
C27_Witness ==
    /\ pc = "done"
    /\ ReleaseThenPress(input_events)
    /\ get_has_cursor(has_cursor)
    /\ is_mouse_pressed
    /\ contains(unwrap(has_cursor), current_mouse_position)

\* A tick with a press and then a release: the cursor has no owner after it
\* and the flag is clear
C27_WitnessReleased ==
    /\ pc = "done"
    /\ PressThenRelease(input_events)
    /\ ~get_has_cursor(has_cursor)
    /\ ~is_mouse_pressed
    /\ \E j \in Calls(log) : log[j].event_type = Simple("MouseDown")

=============================================================================
